---- MODULE Spec2Model ----
(***************************************************************************)
(* Veterinary dose calculator (dose_calculator.py): the three calculation *)
(* functions perform_dose_per_weight_calculation,                         *)
(* perform_infusion_preparation_calculation and                           *)
(* perform_rate_duration_calculation.                                     *)
(*                                                                         *)
(* Numbers are Python floats.  A float is modelled as the exact rational  *)
(* it denotes, a pair <<n, d>> in lowest terms with d > 0, and every      *)
(* arithmetic operation rounds its exact result to the nearest value with *)
(* a significand of Precision bits, ties to even, as IEEE-754 binary64    *)
(* does with 53 bits.  The exponent range is not bounded: overflow to inf *)
(* and underflow to 0 or to subnormals are outside the model.             *)
(* Strings that the code inspects character by character (the             *)
(* concentration unit, the texts typed into add_medication) are sequences *)
(* of one-character strings.                                               *)
(*                                                                         *)
(* The medication catalog is the file medications.json (variable store)   *)
(* and the menu handlers that read and write it; proc holds, for every    *)
(* running process of the program, its position and the locals of the     *)
(* handler it ran last.                                                    *)
(***************************************************************************)
EXTENDS Integers, Sequences, FiniteSets, TLC

VARIABLES pc, args, result, result2, store, proc

vars == <<pc, args, result, result2, store, proc>>

\* ------------------------------------------------------------------ bounds
\* Bits of a float's significand (binary64: 53).
Precision == 3
\* Input numbers are the integers -MaxIn .. MaxIn that are floats.
MaxIn == 7
\* No add is started on a catalog that holds MaxCatalog records.
MaxCatalog == 2

\* ------------------------------------------------------------ float values
RECURSIVE GCD(_, _)
GCD(a, b) == IF b = 0 THEN a ELSE GCD(b, a % b)

Abs(n) == IF n < 0 THEN -n ELSE n

\* The rational n/d (d > 0) in lowest terms.
Reduce(n, d) == LET g == GCD(Abs(n), d) IN <<n \div g, d \div g>>

\* Nearest integer to a/b (a >= 0, b > 0), ties to the even one.
RoundHalfEven(a, b) ==
    LET q == a \div b
        r == a % b
    IN  IF 2 * r < b THEN q
        ELSE IF 2 * r > b THEN q + 1
        ELSE IF q % 2 = 0 THEN q ELSE q + 1

\* Least j >= k with a/d < 2^(j + Precision): the binary exponent of a large a/d.
RECURSIVE ShiftDown(_, _, _)
ShiftDown(a, d, k) == IF a < d * 2^(k + Precision) THEN k ELSE ShiftDown(a, d, k + 1)

\* Least j >= k with (a * 2^j)/d >= 2^(Precision - 1): the exponent of a small a/d.
RECURSIVE ShiftUp(_, _, _)
ShiftUp(a, d, k) == IF a * 2^k >= d * 2^(Precision - 1) THEN k ELSE ShiftUp(a, d, k + 1)

\* The float nearest to the rational n/d (d > 0): its significand is scaled into
\* 2^(Precision-1) .. 2^Precision and rounded to an integer, ties to even.
FloatRound(n, d) ==
    IF n = 0 THEN <<0, 1>>
    ELSE LET a == Abs(n)
             s == IF n < 0 THEN -1 ELSE 1
             down == ShiftDown(a, d, 0)
             up == ShiftUp(a, d, 0)
         IN  IF down > 0
             THEN <<s * RoundHalfEven(a, d * 2^down) * 2^down, 1>>
             ELSE Reduce(s * RoundHalfEven(a * 2^up, d), 2^up)

Zero == <<0, 1>>

\* The outcome of a division by zero: Python raises ZeroDivisionError there.
ZeroDivision == <<0, 0>>

\* Python's None (no number: numbers are pairs).
None == <<>>

\* x * y, x / y, x - y on floats.
FMul(x, y) == FloatRound(x[1] * y[1], x[2] * y[2])

FDiv(x, y) ==
    IF y[1] = 0 THEN ZeroDivision
    ELSE IF y[1] < 0 THEN FloatRound(-(x[1] * y[2]), x[2] * (-y[1]))
    ELSE FloatRound(x[1] * y[2], x[2] * y[1])

FSub(x, y) == FloatRound(x[1] * y[2] - y[1] * x[2], x[2] * y[2])

\* Mutant of FGt: >= where the code has >.
FGtOrEqual(x, y) == x[1] * y[2] >= y[1] * x[2]

\* x > y, x < y on floats.
FGt(x, y) == x[1] * y[2] > y[1] * x[2]

FLt(x, y) == x[1] * y[2] < y[1] * x[2]

\* The integers of the input range that are floats of this precision.
Floats == {v \in {<<i, 1>> : i \in -MaxIn .. MaxIn} : FloatRound(v[1], v[2]) = v}

\* ----------------------------------------------------------------- strings
UpperCase == <<"A", "B", "C", "D", "E", "F", "G", "H", "I", "J", "K", "L", "M",
               "N", "O", "P", "Q", "R", "S", "T", "U", "V", "W", "X", "Y", "Z">>

LowerCase == <<"a", "b", "c", "d", "e", "f", "g", "h", "i", "j", "k", "l", "m",
               "n", "o", "p", "q", "r", "s", "t", "u", "v", "w", "x", "y", "z">>

LowerChar(c) ==
    IF \E i \in 1 .. Len(UpperCase) : UpperCase[i] = c
    THEN LowerCase[CHOOSE i \in 1 .. Len(UpperCase) : UpperCase[i] = c]
    ELSE c

\* Mutant of Lower: the unit is not lowered before it is classified.
LowerForgotten(s) == s

\* str.lower()
Lower(s) == [i \in 1 .. Len(s) |-> LowerChar(s[i])]

\* sub in s
Contains(sub, s) ==
    \E i \in 1 .. (Len(s) - Len(sub) + 1) : SubSeq(s, i, i + Len(sub) - 1) = sub

SlashMl == <<"/", "m", "l">>

SlashTablet == <<"/", "t", "a", "b", "l", "e", "t">>

\* Mutant of MgSlashTab: the shorter marker "/tab".
MgSlashTabShort == <<"/", "t", "a", "b">>

MgSlashTab == <<"m", "g", "/", "t", "a", "b">>

\* Unit strings: a prefix, a marker and a suffix, in several letter cases.
UnitPrefixes == {<<>>, <<"m", "g">>, <<"M", "G">>}

UnitMarkers == {<<>>, <<"/", "m", "L">>, <<"/", "M", "L">>,
                <<"/", "t", "a", "b", "l", "e", "t">>, <<"/", "T", "a", "b", "l", "e", "t">>,
                <<"/", "t", "a", "b">>, <<"/", "T", "A", "B">>,
                <<"/", "c", "a", "p", "s", "u", "l", "e">>, <<"/", " ", "m", "l">>}

UnitSuffixes == {<<>>, <<"/", "M", "l">>}

Units == {p \o m \o s : p \in UnitPrefixes, m \in UnitMarkers, s \in UnitSuffixes}

\* ----------------------------------------------------------------- results
Return(v) == [kind |-> "return", value |-> v, exc |-> "", msg |-> ""]

Raise(e, m) == [kind |-> "raise", value |-> <<>>, exc |-> e, msg |-> m]

\* What Python raises when a division by zero is executed.
RaiseZeroDivision == Raise("ZeroDivisionError", "float division by zero")

NoResult == [kind |-> "none", value |-> <<>>, exc |-> "", msg |-> ""]

\* -------------------------------------------------------- the catalog file
\* medications.json is absent, or holds a JSON array of records ("array"), JSON
\* text that is not an array ("object", as {"a": 1}), text that is not JSON
\* ("malformed": the empty file is one), or bytes that are not text in the
\* encoding open() reads with ("undecodable").
File(kind, data) == [kind |-> kind, data |-> data]

AbsentFile == File("absent", <<>>)

\* What is left of the file when writing fails after open(filepath, 'w') has
\* truncated it: nothing, or the beginning of the JSON text.
TruncatedFile == File("malformed", <<>>)

\* What json.load returns: a Python list, or the dict of a JSON object.
JsonList(items) == [type |-> "list", items |-> items]

JsonDict == [type |-> "dict", items |-> <<>>]

\* The ways the operating system answers open(filepath, 'r') and the reads.
ReadOutcomes == {"ok", "OSError"}

\* The ways it answers open(filepath, 'w') and the writes: "open_fails" leaves
\* the file as it was, "write_fails" fails once the file is open.
WriteOutcomes == {"ok", "open_fails", "write_fails"}

load_medications(file, read) ==
    IF file.kind = "absent" THEN Return(JsonList(<<>>))
    ELSE IF read = "OSError" THEN Return(JsonList(<<>>))
    ELSE IF file.kind = "undecodable"
    THEN [kind |-> "raise", value |-> JsonList(<<>>), exc |-> "UnicodeDecodeError", msg |-> ""]
    ELSE IF file.kind = "malformed" THEN Return(JsonList(<<>>))
    ELSE IF file.kind = "array" THEN Return(JsonList(file.data))
    ELSE Return(JsonDict)

\* save_medications: what it returns and what it makes of the file.
save_medications(medications, file, write) ==
    IF write = "ok" THEN [returns |-> TRUE, file |-> File("array", medications)]
    ELSE IF write = "open_fails" THEN [returns |-> FALSE, file |-> file]
    ELSE [returns |-> FALSE, file |-> TruncatedFile]

\* The calculation functions called directly use no catalog and no process.
NoCatalog == store = AbsentFile /\ proc = <<>>

\* --------------------------------------------------- dose per weight
DoseQuantity(total_mg_needed, concentration_value, label) ==
    LET quantity_to_administer == FDiv(total_mg_needed, concentration_value)
    IN  IF quantity_to_administer = ZeroDivision THEN RaiseZeroDivision
        ELSE Return(<<total_mg_needed, quantity_to_administer, label>>)

\* Mutant of perform_dose_per_weight_calculation: the unit is classified first and
\* the concentration is checked only where it divides.
dose_per_weight_classify_first(weight_kg, dose_mg_per_kg, concentration_value, concentration_unit_str) ==
    LET total_mg_needed == FMul(weight_kg, dose_mg_per_kg)
        unit_lower == Lower(concentration_unit_str)
        recognized == \/ Contains(SlashMl, unit_lower)
                      \/ Contains(SlashTablet, unit_lower)
                      \/ Contains(MgSlashTab, unit_lower)
    IN  IF ~recognized THEN Return(<<total_mg_needed, None, "unrecognized_unit">>)
        ELSE IF concentration_value = Zero
        THEN Raise("ValueError", "Concentration value cannot be zero.")
        ELSE DoseQuantity(total_mg_needed, concentration_value,
                          IF Contains(SlashMl, unit_lower) THEN "mL" ELSE "tablets")

\* Mutant of perform_dose_per_weight_calculation: the tablet markers are tested
\* before the liquid marker.
dose_per_weight_tablet_first(weight_kg, dose_mg_per_kg, concentration_value, concentration_unit_str) ==
    IF concentration_value = Zero
    THEN Raise("ValueError", "Concentration value cannot be zero.")
    ELSE LET total_mg_needed == FMul(weight_kg, dose_mg_per_kg)
             unit_lower == Lower(concentration_unit_str)
         IN  IF Contains(SlashTablet, unit_lower) \/ Contains(MgSlashTab, unit_lower)
             THEN DoseQuantity(total_mg_needed, concentration_value, "tablets")
             ELSE IF Contains(SlashMl, unit_lower)
             THEN DoseQuantity(total_mg_needed, concentration_value, "mL")
             ELSE Return(<<total_mg_needed, None, "unrecognized_unit">>)

perform_dose_per_weight_calculation(weight_kg, dose_mg_per_kg, concentration_value, concentration_unit_str) ==
    IF concentration_value = Zero
    THEN Raise("ValueError", "Concentration value cannot be zero.")
    ELSE LET total_mg_needed == FMul(weight_kg, dose_mg_per_kg)
             unit_lower == Lower(concentration_unit_str)
         IN  IF Contains(SlashMl, unit_lower)
             THEN DoseQuantity(total_mg_needed, concentration_value, "mL")
             ELSE IF Contains(SlashTablet, unit_lower) \/ Contains(MgSlashTab, unit_lower)
             THEN DoseQuantity(total_mg_needed, concentration_value, "tablets")
             ELSE Return(<<total_mg_needed, None, "unrecognized_unit">>)

\* A direct call of perform_dose_per_weight_calculation with any numbers and unit.
DoseArgs == [op : {"dose_per_weight"}, weight_kg : Floats, dose_mg_per_kg : Floats,
             concentration_value : Floats, concentration_unit_str : Units]

InitDose ==
    /\ NoCatalog
    /\ pc = "ready"
    /\ args \in DoseArgs
    /\ result = NoResult
    /\ result2 = NoResult

CallDosePerWeight ==
    /\ pc = "ready"
    /\ args.op = "dose_per_weight"
    /\ result' = perform_dose_per_weight_calculation(args.weight_kg, args.dose_mg_per_kg,
                        args.concentration_value, args.concentration_unit_str)
    /\ pc' = "called"
    /\ UNCHANGED <<args, result2, store, proc>>

\* --------------------------------------------------- infusion preparation
\* Mutant of perform_infusion_preparation_calculation: the diluent is the final
\* volume less the dose, not less the drug volume.
infusion_preparation_subtracts_dose(total_dose_mg, drug_concentration_value_mg_ml, total_final_infusion_volume_ml) ==
    IF drug_concentration_value_mg_ml = Zero
    THEN Raise("ValueError", "Drug concentration cannot be zero.")
    ELSE IF total_final_infusion_volume_ml = Zero
    THEN Raise("ValueError", "Total final infusion volume cannot be zero.")
    ELSE LET volume_of_drug_to_draw_mL == FDiv(total_dose_mg, drug_concentration_value_mg_ml)
         IN  IF FGt(volume_of_drug_to_draw_mL, total_final_infusion_volume_ml)
             THEN Raise("ValueError",
                        "Volume of drug to draw exceeds the total final infusion volume.")
             ELSE IF FLt(volume_of_drug_to_draw_mL, Zero)
             THEN Raise("ValueError", "Calculated volume of drug to draw is negative.")
             ELSE Return(<<volume_of_drug_to_draw_mL,
                           FSub(total_final_infusion_volume_ml, total_dose_mg),
                           FDiv(total_dose_mg, total_final_infusion_volume_ml)>>)

\* Mutant of perform_infusion_preparation_calculation: no check of a negative
\* drug volume.
infusion_preparation_no_negative_check(total_dose_mg, drug_concentration_value_mg_ml, total_final_infusion_volume_ml) ==
    IF drug_concentration_value_mg_ml = Zero
    THEN Raise("ValueError", "Drug concentration cannot be zero.")
    ELSE IF total_final_infusion_volume_ml = Zero
    THEN Raise("ValueError", "Total final infusion volume cannot be zero.")
    ELSE LET volume_of_drug_to_draw_mL == FDiv(total_dose_mg, drug_concentration_value_mg_ml)
         IN  IF FGt(volume_of_drug_to_draw_mL, total_final_infusion_volume_ml)
             THEN Raise("ValueError",
                        "Volume of drug to draw exceeds the total final infusion volume.")
             ELSE Return(<<volume_of_drug_to_draw_mL,
                           FSub(total_final_infusion_volume_ml, volume_of_drug_to_draw_mL),
                           FDiv(total_dose_mg, total_final_infusion_volume_ml)>>)

perform_infusion_preparation_calculation(total_dose_mg, drug_concentration_value_mg_ml, total_final_infusion_volume_ml) ==
    IF drug_concentration_value_mg_ml = Zero
    THEN Raise("ValueError", "Drug concentration cannot be zero.")
    ELSE IF total_final_infusion_volume_ml = Zero
    THEN Raise("ValueError", "Total final infusion volume cannot be zero.")
    ELSE LET volume_of_drug_to_draw_mL == FDiv(total_dose_mg, drug_concentration_value_mg_ml)
         IN  IF volume_of_drug_to_draw_mL = ZeroDivision THEN RaiseZeroDivision
             ELSE IF FGt(volume_of_drug_to_draw_mL, total_final_infusion_volume_ml)
             THEN Raise("ValueError",
                        "Volume of drug to draw exceeds the total final infusion volume.")
             ELSE IF FLt(volume_of_drug_to_draw_mL, Zero)
             THEN Raise("ValueError", "Calculated volume of drug to draw is negative.")
             ELSE LET volume_of_diluent_mL ==
                          FSub(total_final_infusion_volume_ml, volume_of_drug_to_draw_mL)
                      final_infusion_concentration_mg_per_mL ==
                          FDiv(total_dose_mg, total_final_infusion_volume_ml)
                  IN  IF final_infusion_concentration_mg_per_mL = ZeroDivision
                      THEN RaiseZeroDivision
                      ELSE Return(<<volume_of_drug_to_draw_mL, volume_of_diluent_mL,
                                    final_infusion_concentration_mg_per_mL>>)

\* A direct call of perform_infusion_preparation_calculation with any numbers.
InfusionArgs == [op : {"infusion_preparation"}, total_dose_mg : Floats,
                 drug_concentration_value_mg_ml : Floats,
                 total_final_infusion_volume_ml : Floats]

InitInfusion ==
    /\ NoCatalog
    /\ pc = "ready"
    /\ args \in InfusionArgs
    /\ result = NoResult
    /\ result2 = NoResult

CallInfusionPreparation ==
    /\ pc = "ready"
    /\ args.op = "infusion_preparation"
    /\ result' = perform_infusion_preparation_calculation(args.total_dose_mg,
                        args.drug_concentration_value_mg_ml,
                        args.total_final_infusion_volume_ml)
    /\ pc' = "called"
    /\ UNCHANGED <<args, result2, store, proc>>

\* --------------------------------------------------- rate / duration
\* Mutant of perform_rate_duration_calculation: duration_from_rate divides the
\* rate by the volume.
rate_duration_swapped_quotient(total_volume_ml, total_drug_mg_in_infusion, value, mode) ==
    IF mode = "rate_from_duration"
    THEN IF value = Zero
         THEN Raise("ValueError", "Duration cannot be zero.")
         ELSE Return(<<FDiv(total_volume_ml, value), value,
                       FDiv(total_drug_mg_in_infusion, value)>>)
    ELSE IF mode = "duration_from_rate"
    THEN IF value = Zero
         THEN Raise("ValueError", "Infusion rate cannot be zero.")
         ELSE IF total_volume_ml = Zero
         THEN Raise("ValueError",
                "Total volume cannot be zero for drug concentration calculation in this mode.")
         ELSE Return(<<value, FDiv(value, total_volume_ml),
                       FMul(value, FDiv(total_drug_mg_in_infusion, total_volume_ml))>>)
    ELSE Raise("ValueError", "Invalid mode: " \o mode)

\* Mutant of perform_rate_duration_calculation: duration_from_rate does not check
\* the total volume before it divides by it.
rate_duration_no_volume_check(total_volume_ml, total_drug_mg_in_infusion, value, mode) ==
    IF mode = "rate_from_duration"
    THEN IF value = Zero
         THEN Raise("ValueError", "Duration cannot be zero.")
         ELSE Return(<<FDiv(total_volume_ml, value), value,
                       FDiv(total_drug_mg_in_infusion, value)>>)
    ELSE IF mode = "duration_from_rate"
    THEN IF value = Zero
         THEN Raise("ValueError", "Infusion rate cannot be zero.")
         ELSE LET drug_concentration_mg_per_mL ==
                      FDiv(total_drug_mg_in_infusion, total_volume_ml)
              IN  IF drug_concentration_mg_per_mL = ZeroDivision
                  THEN RaiseZeroDivision
                  ELSE Return(<<value, FDiv(total_volume_ml, value),
                                FMul(value, drug_concentration_mg_per_mL)>>)
    ELSE Raise("ValueError", "Invalid mode: " \o mode)

\* Mutant of perform_rate_duration_calculation: a plain else where the code has
\* elif mode == 'duration_from_rate', so every other mode computes a duration.
rate_duration_else_branch(total_volume_ml, total_drug_mg_in_infusion, value, mode) ==
    IF mode = "rate_from_duration"
    THEN IF value = Zero
         THEN Raise("ValueError", "Duration cannot be zero.")
         ELSE Return(<<FDiv(total_volume_ml, value), value,
                       FDiv(total_drug_mg_in_infusion, value)>>)
    ELSE IF value = Zero
         THEN Raise("ValueError", "Infusion rate cannot be zero.")
         ELSE IF total_volume_ml = Zero
         THEN Raise("ValueError",
                "Total volume cannot be zero for drug concentration calculation in this mode.")
         ELSE Return(<<value, FDiv(total_volume_ml, value),
                       FMul(value, FDiv(total_drug_mg_in_infusion, total_volume_ml))>>)

perform_rate_duration_calculation(total_volume_ml, total_drug_mg_in_infusion, value, mode) ==
    IF mode = "rate_from_duration"
    THEN LET duration_hours == value
         IN  IF duration_hours = Zero
             THEN Raise("ValueError", "Duration cannot be zero.")
             ELSE LET infusion_rate_mL_per_hour == FDiv(total_volume_ml, duration_hours)
                      drug_delivery_rate_mg_per_hour ==
                          FDiv(total_drug_mg_in_infusion, duration_hours)
                  IN  IF ZeroDivision \in {infusion_rate_mL_per_hour,
                                           drug_delivery_rate_mg_per_hour}
                      THEN RaiseZeroDivision
                      ELSE Return(<<infusion_rate_mL_per_hour, duration_hours,
                                    drug_delivery_rate_mg_per_hour>>)
    ELSE IF mode = "duration_from_rate"
    THEN LET infusion_rate_mL_per_hour == value
         IN  IF infusion_rate_mL_per_hour = Zero
             THEN Raise("ValueError", "Infusion rate cannot be zero.")
             ELSE IF total_volume_ml = Zero
             THEN Raise("ValueError",
                "Total volume cannot be zero for drug concentration calculation in this mode.")
             ELSE LET duration_hours == FDiv(total_volume_ml, infusion_rate_mL_per_hour)
                      drug_concentration_mg_per_mL ==
                          FDiv(total_drug_mg_in_infusion, total_volume_ml)
                  IN  IF ZeroDivision \in {duration_hours, drug_concentration_mg_per_mL}
                      THEN RaiseZeroDivision
                      ELSE Return(<<infusion_rate_mL_per_hour, duration_hours,
                                    FMul(infusion_rate_mL_per_hour,
                                         drug_concentration_mg_per_mL)>>)
    ELSE Raise("ValueError", "Invalid mode: " \o mode)

Modes == {"rate_from_duration", "duration_from_rate", "unknown_mode",
          "Rate_From_Duration", "duration_from_rate ", ""}

\* The mode that inverts a recognized mode.
OtherMode(mode) ==
    IF mode = "rate_from_duration" THEN "duration_from_rate" ELSE "rate_from_duration"

\* A direct call of perform_rate_duration_calculation with any numbers and mode.
RateArgs == [op : {"rate_duration"}, total_volume_ml : Floats,
            total_drug_mg_in_infusion : Floats, value : Floats, mode : Modes]

InitRate ==
    /\ NoCatalog
    /\ pc = "ready"
    /\ args \in RateArgs
    /\ result = NoResult
    /\ result2 = NoResult

CallRateDuration ==
    /\ pc = "ready"
    /\ args.op = "rate_duration"
    /\ result' = perform_rate_duration_calculation(args.total_volume_ml,
                        args.total_drug_mg_in_infusion, args.value, args.mode)
    /\ pc' = "called"
    /\ UNCHANGED <<args, result2, store, proc>>

\* The round trip: the rate a rate_from_duration call returned is given to
\* duration_from_rate (and the duration a duration_from_rate call returned to
\* rate_from_duration), with the same volume and drug amount.
FeedBack ==
    /\ pc = "called"
    /\ args.op = "rate_duration"
    /\ result.kind = "return"
    /\ result2' = perform_rate_duration_calculation(args.total_volume_ml,
                        args.total_drug_mg_in_infusion,
                        IF args.mode = "rate_from_duration"
                        THEN result.value[1] ELSE result.value[2],
                        OtherMode(args.mode))
    /\ pc' = "fedback"
    /\ UNCHANGED <<args, result, store, proc>>

\* ------------------------------------------------------- catalog handlers
\* JSON values of a record's concentration_value, with the Python type json.load
\* gives them; v is the number a float, an int or a bool denotes.
JsonFloat(v) == [type |-> "float", v |-> v]

JsonStr == [type |-> "str", v |-> Zero]

\* A missing key: selected_med.get('concentration_value') is None.
JsonNull == [type |-> "NoneType", v |-> Zero]

\* JSON true: a Python bool, which is an int equal to 1.
JsonTrue == [type |-> "bool", v |-> <<1, 1>>]

\* isinstance(concentration_value, (int, float))
IsIntOrFloat(concentration_value) == concentration_value.type \in {"float", "bool"}

\* Mutant of InvalidConcentration: a zero concentration passes.
InvalidConcentrationNegativeOnly(concentration_value) ==
    \/ ~IsIntOrFloat(concentration_value)
    \/ FLt(concentration_value.v, Zero)

\* The check the calculation handlers make before they ask for a weight or a dose.
InvalidConcentration(concentration_value) ==
    \/ ~IsIntOrFloat(concentration_value)
    \/ FLt(concentration_value.v, Zero)
    \/ concentration_value.v = Zero

Presentation == <<"v", "i", "a", "l">>

NoRecord ==
    [commercial_name |-> <<>>, presentation |-> <<>>,
     concentration_value |-> JsonNull, concentration_unit |-> <<>>]

\* str.strip(), for texts whose only whitespace is the space.
RECURSIVE StripLeft(_)
StripLeft(s) == IF s # <<>> /\ Head(s) = " " THEN StripLeft(Tail(s)) ELSE s

RECURSIVE StripRight(_)
StripRight(s) ==
    IF s # <<>> /\ s[Len(s)] = " " THEN StripRight(SubSeq(s, 1, Len(s) - 1)) ELSE s

Strip(s) == StripRight(StripLeft(s))

\* What the user types at add_medication's prompts.
TypedNames == {<<" ">>, <<"K", " ">>}

TypedUnits == {<<" ">>, <<" ", "m", "g", "/", "m", "L">>}

\* The numbers the user types at a prompt for a number,
TypedNumbers == {v \in Floats : v[1] >= -1 /\ v[1] <= 2}

\* and the values get_positive_float_input returns for them: it asks again
\* until a typed number is positive.
get_positive_float_input == {value \in TypedNumbers : FGt(value, Zero)}

\* The records a catalog file written by hand or by an earlier run may hold.
StoredUnits == {<<"m", "g", "/", "m", "L">>, <<"m", "g", "/", "T", "A", "B">>, <<"I", "U">>}

StoredValues == {JsonFloat(v) : v \in TypedNumbers} \cup {JsonStr, JsonNull, JsonTrue}

StoredRecords ==
    [commercial_name : {<<"A">>}, presentation : {Presentation},
     concentration_value : StoredValues, concentration_unit : StoredUnits]

InitialFiles ==
    {AbsentFile, File("object", <<>>), File("malformed", <<>>), File("undecodable", <<>>),
     File("array", <<>>)} \cup {File("array", <<r>>) : r \in StoredRecords}

\* The records add_medication can write, and the catalog files that earlier
\* runs of the program left behind.
AddedRecords ==
    [commercial_name : {Strip(n) : n \in TypedNames} \ {<<>>}, presentation : {Presentation},
     concentration_value : {JsonFloat(v) : v \in get_positive_float_input},
     concentration_unit : {Strip(u) : u \in TypedUnits} \ {<<>>}]

WrittenFiles == {AbsentFile, File("array", <<>>)} \cup {File("array", <<r>>) : r \in AddedRecords}

NoRead == [file |-> AbsentFile, outcome |-> "none"]

NoLoad == [kind |-> "none", value |-> JsonList(<<>>), exc |-> "", msg |-> ""]

\* A process at the main menu that has run no handler yet.  pc is "menu",
\* "add_medication" (add_medication waits at its prompts, its load done) or
\* "crashed" (an exception left main_menu); the other fields are the locals
\* of the last handler, what it listed, how it ended, and how the operating
\* system answered its last load (read) and its save (write).
Idle ==
    [pc |-> "menu", op |-> "", outcome |-> "", read |-> NoRead, medications |-> NoLoad,
     shown |-> <<>>, selected_med |-> NoRecord, new_medication |-> NoRecord,
     write |-> "none", saved |-> "none"]

NoArgs == [op |-> "none"]

\* A handler of process p ends with the locals loc and has called no calculation
\* (args and result hold the call the last handler made, if it made one),
Finish(p, loc) ==
    /\ proc' = [proc EXCEPT ![p] = loc]
    /\ args' = NoArgs
    /\ result' = NoResult

\* or has called one with the arguments a, which returned res: a ValueError is
\* caught and printed, any other exception leaves main_menu.
Calculated(p, loc, a, res) ==
    /\ proc' = [proc EXCEPT ![p] =
                  [loc EXCEPT !.outcome = IF res.kind = "return" THEN "calculated"
                                          ELSE IF res.exc = "ValueError" THEN "calculation_error"
                                          ELSE res.exc,
                              !.pc = IF res.kind = "raise" /\ res.exc # "ValueError"
                                     THEN "crashed" ELSE "menu"]]
    /\ args' = a
    /\ result' = res

\* add_medication up to its prompts: the catalog is loaded first.
AddLoad(p) ==
    /\ proc[p].pc = "menu"
    /\ store.kind = "array" => Len(store.data) < MaxCatalog
    /\ \E read \in ReadOutcomes :
         LET medications == load_medications(store, read)
         IN  Finish(p, [Idle EXCEPT !.op = "add_medication",
                                    !.pc = IF medications.kind = "raise"
                                           THEN "crashed" ELSE "add_medication",
                                    !.outcome = medications.exc,
                                    !.read = [file |-> store, outcome |-> read],
                                    !.medications = medications])
    /\ UNCHANGED <<pc, result2, store>>

\* Mutant of AddSave: the new record is appended to what the file holds when
\* it is saved.
AddSaveMerges(p) ==
    /\ proc[p].pc = "add_medication"
    /\ \E typed_name \in TypedNames, typed_unit \in TypedUnits, write \in WriteOutcomes,
          concentration_value \in get_positive_float_input :
         LET commercial_name == Strip(typed_name)
             concentration_unit == Strip(typed_unit)
             new_medication ==
                 [commercial_name |-> commercial_name, presentation |-> Presentation,
                  concentration_value |-> JsonFloat(concentration_value),
                  concentration_unit |-> concentration_unit]
             medications == proc[p].medications.value
             current == load_medications(store, "ok").value
         IN  IF commercial_name = <<>> \/ concentration_unit = <<>>
             THEN /\ Finish(p, [proc[p] EXCEPT !.pc = "menu", !.outcome = "empty_field"])
                  /\ store' = store
             ELSE IF medications.type # "list" \/ current.type # "list"
             THEN /\ Finish(p, [proc[p] EXCEPT !.pc = "crashed", !.outcome = "AttributeError"])
                  /\ store' = store
             ELSE LET saving == save_medications(Append(current.items, new_medication),
                                                 store, write)
                  IN  /\ Finish(p, [proc[p] EXCEPT
                                      !.pc = "menu",
                                      !.outcome = IF saving.returns THEN "added" ELSE "not_saved",
                                      !.new_medication = new_medication,
                                      !.write = write,
                                      !.saved = IF saving.returns THEN "True" ELSE "False"])
                      /\ store' = saving.file
    /\ UNCHANGED <<pc, result2>>

\* add_medication from its prompts on: the texts are stripped and checked, the
\* record is appended to the list loaded before the prompts, the list is saved.
AddSave(p) ==
    /\ proc[p].pc = "add_medication"
    /\ \E typed_name \in TypedNames, typed_unit \in TypedUnits, write \in WriteOutcomes,
          concentration_value \in get_positive_float_input :
         LET commercial_name == Strip(typed_name)
             concentration_unit == Strip(typed_unit)
             new_medication ==
                 [commercial_name |-> commercial_name, presentation |-> Presentation,
                  concentration_value |-> JsonFloat(concentration_value),
                  concentration_unit |-> concentration_unit]
             medications == proc[p].medications.value
         IN  IF commercial_name = <<>> \/ concentration_unit = <<>>
             THEN /\ Finish(p, [proc[p] EXCEPT !.pc = "menu", !.outcome = "empty_field"])
                  /\ store' = store
             ELSE IF medications.type # "list"
             THEN /\ Finish(p, [proc[p] EXCEPT !.pc = "crashed", !.outcome = "AttributeError"])
                  /\ store' = store
             ELSE LET saving == save_medications(Append(medications.items, new_medication),
                                                 store, write)
                  IN  /\ Finish(p, [proc[p] EXCEPT
                                      !.pc = "menu",
                                      !.outcome = IF saving.returns THEN "added" ELSE "not_saved",
                                      !.new_medication = new_medication,
                                      !.write = write,
                                      !.saved = IF saving.returns THEN "True" ELSE "False"])
                      /\ store' = saving.file
    /\ UNCHANGED <<pc, result2>>

\* view_medications: the locals it ends with.  A dict that json.load returned
\* is iterated over its keys, and str has no get.
view_medications(file, read) ==
    LET medications == load_medications(file, read)
        loc == [Idle EXCEPT !.op = "view_medications",
                            !.read = [file |-> file, outcome |-> read],
                            !.medications = medications]
    IN  IF medications.kind = "raise"
        THEN [loc EXCEPT !.pc = "crashed", !.outcome = medications.exc]
        ELSE IF medications.value.type # "list"
        THEN [loc EXCEPT !.pc = "crashed", !.outcome = "AttributeError"]
        ELSE IF medications.value.items = <<>>
        THEN [loc EXCEPT !.outcome = "no_medications"]
        ELSE [loc EXCEPT !.outcome = "listed", !.shown = medications.value.items]

ViewMedications(p) ==
    /\ proc[p].pc = "menu"
    /\ \E read \in ReadOutcomes : Finish(p, view_medications(store, read))
    /\ UNCHANGED <<pc, result2, store>>

\* The start the two catalog calculations share: view_medications, then the
\* handler's own load.  Indexing a dict with selection - 1 is a KeyError.
LoadForCalculation(op, file, read1, read2) ==
    LET viewed == [view_medications(file, read1) EXCEPT !.op = op]
        medications_list == load_medications(file, read2)
        loc == [viewed EXCEPT !.read = [file |-> file, outcome |-> read2],
                              !.medications = medications_list]
    IN  IF viewed.pc = "crashed" THEN viewed
        ELSE IF medications_list.kind = "raise"
        THEN [loc EXCEPT !.pc = "crashed", !.outcome = medications_list.exc]
        ELSE IF medications_list.value.type # "list"
        THEN [loc EXCEPT !.pc = "crashed", !.outcome = "KeyError"]
        ELSE IF medications_list.value.items = <<>>
        THEN [loc EXCEPT !.outcome = "no_medications"]
        ELSE [loc EXCEPT !.outcome = "select"]

CalculateDosePerWeight(p) ==
    /\ proc[p].pc = "menu"
    /\ \E read1 \in ReadOutcomes, read2 \in ReadOutcomes :
         LET loaded == LoadForCalculation("calculate_dose_per_weight", store, read1, read2)
             medications_list == loaded.medications.value.items
         IN  IF loaded.outcome # "select" THEN Finish(p, loaded)
             ELSE \E selection \in 1 .. Len(medications_list) :
                    LET selected_med == medications_list[selection]
                        concentration_value == selected_med.concentration_value
                        concentration_unit == Lower(selected_med.concentration_unit)
                        loc == [loaded EXCEPT !.selected_med = selected_med]
                    IN  IF InvalidConcentration(concentration_value)
                        THEN Finish(p, [loc EXCEPT !.outcome = "invalid_concentration"])
                        ELSE \E weight_kg \in get_positive_float_input,
                                dose_mg_per_kg \in get_positive_float_input :
                               Calculated(p, loc,
                                 [op |-> "dose_per_weight", weight_kg |-> weight_kg,
                                  dose_mg_per_kg |-> dose_mg_per_kg,
                                  concentration_value |-> concentration_value.v,
                                  concentration_unit_str |-> concentration_unit],
                                 perform_dose_per_weight_calculation(weight_kg, dose_mg_per_kg,
                                     concentration_value.v, concentration_unit))
    /\ UNCHANGED <<pc, result2, store>>

SlashSpaceMl == <<"/", " ", "m", "l">>

CalculateInfusionPreparation(p) ==
    /\ proc[p].pc = "menu"
    /\ \E read1 \in ReadOutcomes, read2 \in ReadOutcomes :
         LET loaded == LoadForCalculation("calculate_infusion_preparation", store, read1, read2)
             medications_list == loaded.medications.value.items
         IN  IF loaded.outcome # "select" THEN Finish(p, loaded)
             ELSE \E selection \in 1 .. Len(medications_list) :
                    LET selected_med == medications_list[selection]
                        concentration_value == selected_med.concentration_value
                        concentration_unit == Lower(selected_med.concentration_unit)
                        loc == [loaded EXCEPT !.selected_med = selected_med]
                    IN  IF ~(Contains(SlashMl, concentration_unit)
                             \/ Contains(SlashSpaceMl, concentration_unit))
                        THEN Finish(p, [loc EXCEPT !.outcome = "not_liquid"])
                        ELSE IF InvalidConcentration(concentration_value)
                        THEN Finish(p, [loc EXCEPT !.outcome = "invalid_concentration"])
                        ELSE \E total_dose_mg \in get_positive_float_input,
                                total_final_volume_mL \in get_positive_float_input :
                               Calculated(p, loc,
                                 [op |-> "infusion_preparation", total_dose_mg |-> total_dose_mg,
                                  drug_concentration_value_mg_ml |-> concentration_value.v,
                                  total_final_infusion_volume_ml |-> total_final_volume_mL],
                                 perform_infusion_preparation_calculation(total_dose_mg,
                                     concentration_value.v, total_final_volume_mL))
    /\ UNCHANGED <<pc, result2, store>>

\* calculate_infusion_rate_duration uses no catalog; choice '1' asks for a
\* duration and choice '2' for a rate.
CalculateInfusionRateDuration(p) ==
    /\ proc[p].pc = "menu"
    /\ \E total_volume_mL \in get_positive_float_input, choice \in {"1", "2"},
          total_drug_mg_in_infusion \in get_positive_float_input,
          value \in get_positive_float_input :
         LET mode == IF choice = "1" THEN "rate_from_duration" ELSE "duration_from_rate"
         IN  Calculated(p, [Idle EXCEPT !.op = "calculate_infusion_rate_duration"],
                [op |-> "rate_duration", total_volume_ml |-> total_volume_mL,
                 total_drug_mg_in_infusion |-> total_drug_mg_in_infusion,
                 value |-> value, mode |-> mode],
                perform_rate_duration_calculation(total_volume_mL,
                    total_drug_mg_in_infusion, value, mode))
    /\ UNCHANGED <<pc, result2, store>>

\* ----------------------------------------------------------- specifications
\* The calculation functions called directly, as the tests call them:
\* perform_dose_per_weight_calculation with every unit string,
NextDose == CallDosePerWeight

SpecDose == InitDose /\ [][NextDose]_vars

\* and the two infusion calculations.
InitCalc == InitInfusion \/ InitRate

NextCalc == CallInfusionPreparation \/ CallRateDuration \/ FeedBack

SpecCalc == InitCalc /\ [][NextCalc]_vars

\* One process of the program at its main menu, over a catalog file in any
\* condition: the user picks add (1), view (2) or a calculation (3, 4, 5).
InitShell ==
    /\ pc = "shell"
    /\ args = NoArgs
    /\ result = NoResult
    /\ result2 = NoResult
    /\ store \in InitialFiles
    /\ proc = [p \in {1} |-> Idle]

NextShell ==
    \/ AddLoad(1)
    \/ AddSave(1)
    \/ ViewMedications(1)
    \/ CalculateDosePerWeight(1)
    \/ CalculateInfusionPreparation(1)
    \/ CalculateInfusionRateDuration(1)

SpecShell == InitShell /\ [][NextShell]_vars

\* Two processes of the program over one catalog file that the program wrote,
\* each adding medications.
InitAdd2 ==
    /\ pc = "shell"
    /\ args = NoArgs
    /\ result = NoResult
    /\ result2 = NoResult
    /\ store \in WrittenFiles
    /\ proc = [p \in {1, 2} |-> Idle]

NextAdd2 == \E p \in {1, 2} : AddLoad(p) \/ AddSave(p)

SpecAdd2 == InitAdd2 /\ [][NextAdd2]_vars


\* ------------------------------------------------------------------ claims
\* Exact comparisons of the numbers two floats denote.
Less(x, y) == x[1] * y[2] < y[1] * x[2]

Positive(x) == x[1] > 0

\* x + y on floats, as a caller adds two results.
FAdd(x, y) == FloatRound(x[1] * y[2] + y[1] * x[2], x[2] * y[2])

\* q is a / b without rounding.
IsExactQuotient(q, a, b) == q[1] * b[1] * a[2] = a[1] * q[2] * b[2]

\* sub occurs in s when letter case is ignored (sub is in lower case).
ContainsAnyCase(sub, s) ==
    \E i \in 1 .. (Len(s) - Len(sub) + 1) :
        \A k \in 1 .. Len(sub) : LowerChar(s[i + k - 1]) = sub[k]

HasLiquidMarker(s) == ContainsAnyCase(<<"/", "m", "l">>, s)

HasTabletMarker(s) ==
    \/ ContainsAnyCase(<<"/", "t", "a", "b", "l", "e", "t">>, s)
    \/ ContainsAnyCase(<<"m", "g", "/", "t", "a", "b">>, s)

DoseCalled == pc = "called" /\ args.op = "dose_per_weight"

\* weight_kg * dose_mg_per_kg of the call made.
TotalMg == FMul(args.weight_kg, args.dose_mg_per_kg)

\* C1: for weight, dose and concentration > 0 and a unit containing "/ml" in any
\* letter case, perform_dose_per_weight_calculation returns
\* (weight*dose, weight*dose/concentration, "mL").
C1_LiquidDose ==
    (/\ DoseCalled
     /\ Positive(args.weight_kg)
     /\ Positive(args.dose_mg_per_kg)
     /\ Positive(args.concentration_value)
     /\ HasLiquidMarker(args.concentration_unit_str))
    => result = Return(<<TotalMg, FDiv(TotalMg, args.concentration_value), "mL">>)

\* A liquid dose of a unit written "/ML", whose quantity is a rounded quotient.
C1_Witness ==
    /\ DoseCalled
    /\ Positive(args.weight_kg)
    /\ Positive(args.dose_mg_per_kg)
    /\ Positive(args.concentration_value)
    /\ Contains(<<"/", "M", "L">>, args.concentration_unit_str)
    /\ result.kind = "return"
    /\ result.value[3] = "mL"
    /\ ~IsExactQuotient(result.value[2], result.value[1], args.concentration_value)

\* C2: with concentration_value = 0 the call fails with "Concentration value cannot
\* be zero." whatever the weight, the dose and the unit (recognized or not): no
\* result tuple is returned.
C2_ZeroConcentrationFails ==
    (DoseCalled /\ args.concentration_value = Zero)
    => result = Raise("ValueError", "Concentration value cannot be zero.")

\* A zero concentration with an unrecognized unit, which fails all the same.
C2_Witness ==
    /\ DoseCalled
    /\ args.concentration_value = Zero
    /\ ~HasLiquidMarker(args.concentration_unit_str)
    /\ ~HasTabletMarker(args.concentration_unit_str)
    /\ result.kind = "raise"

\* C3 as stated: an unrecognized unit always returns (weight*dose, None,
\* "unrecognized_unit") and never raises.
C3_UnrecognizedNeverRaises ==
    (/\ DoseCalled
     /\ ~HasLiquidMarker(args.concentration_unit_str)
     /\ ~HasTabletMarker(args.concentration_unit_str))
    => result = Return(<<TotalMg, None, "unrecognized_unit">>)

\* C3 amended: an unrecognized unit and a nonzero concentration_value return
\* (weight*dose, None, "unrecognized_unit"); a zero concentration_value raises
\* "Concentration value cannot be zero." before the unit is looked at.
C3_UnrecognizedNonzero ==
    (/\ DoseCalled
     /\ ~HasLiquidMarker(args.concentration_unit_str)
     /\ ~HasTabletMarker(args.concentration_unit_str))
    => IF args.concentration_value = Zero
       THEN result = Raise("ValueError", "Concentration value cannot be zero.")
       ELSE result = Return(<<TotalMg, None, "unrecognized_unit">>)

\* The unit "/TAB", close to a tablet marker and still unrecognized.
C3_Witness ==
    /\ DoseCalled
    /\ args.concentration_unit_str = <<"/", "T", "A", "B">>
    /\ args.concentration_value # Zero
    /\ result.kind = "return"
    /\ result.value[2] = None
    /\ result.value[3] = "unrecognized_unit"

\* C4: the unit is classified in priority order (the quotient exists, so the
\* concentration is not 0): without "/ml" and with "/tablet" or "mg/tab" the result
\* is (weight*dose, weight*dose/concentration, "tablets"); with "/ml" the label is
\* "mL" even when a tablet marker is there too.
C4_ClassificationPriority ==
    (DoseCalled /\ args.concentration_value # Zero)
    => /\ (/\ ~HasLiquidMarker(args.concentration_unit_str)
           /\ HasTabletMarker(args.concentration_unit_str))
          => result = Return(<<TotalMg, FDiv(TotalMg, args.concentration_value), "tablets">>)
       /\ HasLiquidMarker(args.concentration_unit_str)
          => (result.kind = "return" /\ result.value[3] = "mL")

\* A unit with both a tablet marker and "/ml", labelled "mL".
C4_Witness ==
    /\ DoseCalled
    /\ args.concentration_value # Zero
    /\ HasLiquidMarker(args.concentration_unit_str)
    /\ HasTabletMarker(args.concentration_unit_str)
    /\ result.kind = "return"
    /\ result.value[3] = "mL"

\* x is within k units of roundoff (k * 2^-Precision, relatively) of y.
Within(x, y, k) ==
    Abs(x[1] * y[2] - y[1] * x[2]) * 2^Precision <= k * Abs(y[1]) * x[2]

InfusionCalled == pc = "called" /\ args.op = "infusion_preparation"

\* total_dose_mg / drug_concentration of the call made (the concentration is not 0).
DrugVolume == FDiv(args.total_dose_mg, args.drug_concentration_value_mg_ml)

ExceedsError ==
    Raise("ValueError", "Volume of drug to draw exceeds the total final infusion volume.")

\* C5 as stated: whenever the infusion preparation succeeds, drug volume + diluent
\* volume equals the final volume, the drug volume equals dose / concentration and
\* the final concentration equals dose / final volume.
C5_VolumesAddUpExactly ==
    (InfusionCalled /\ result.kind = "return")
    => /\ FAdd(result.value[1], result.value[2]) = args.total_final_infusion_volume_ml
       /\ result.value[1] = DrugVolume
       /\ result.value[3] = FDiv(args.total_dose_mg, args.total_final_infusion_volume_ml)

\* C5 amended: whenever the infusion preparation succeeds, drug volume + diluent
\* volume equals the final volume up to floating-point rounding (a relative error
\* of at most two units of roundoff), the drug volume is the float quotient
\* dose / concentration and the final concentration the float quotient
\* dose / final volume.
C5_VolumesAddUpRounded ==
    (InfusionCalled /\ result.kind = "return")
    => /\ Within(FAdd(result.value[1], result.value[2]),
                 args.total_final_infusion_volume_ml, 2)
       /\ result.value[1] = DrugVolume
       /\ result.value[3] = FDiv(args.total_dose_mg, args.total_final_infusion_volume_ml)

\* A successful preparation whose volumes do not add up to the final volume exactly.
C5_Witness ==
    /\ InfusionCalled
    /\ Positive(args.total_dose_mg)
    /\ Positive(args.drug_concentration_value_mg_ml)
    /\ result.kind = "return"
    /\ FAdd(result.value[1], result.value[2]) # args.total_final_infusion_volume_ml
    /\ Positive(result.value[2])

\* C6 as stated: with both divisors nonzero the call fails with the "exceeds" error
\* exactly when dose / concentration > final volume, and succeeds with diluent
\* volume 0 when the drug volume equals the final volume.
C6_ExceedsExactly ==
    (/\ InfusionCalled
     /\ args.drug_concentration_value_mg_ml # Zero
     /\ args.total_final_infusion_volume_ml # Zero)
    => /\ (result = ExceedsError) <=> Less(args.total_final_infusion_volume_ml, DrugVolume)
       /\ DrugVolume = args.total_final_infusion_volume_ml
          => (result.kind = "return" /\ result.value[2] = Zero)

\* C6 amended: with both divisors nonzero the call fails with the "exceeds" error
\* exactly when dose / concentration > final volume; when the drug volume equals
\* the final volume the call succeeds with diluent volume 0 if that volume is
\* positive and fails with "Calculated volume of drug to draw is negative." if it
\* is negative.
C6_ExceedsExactlyPositive ==
    (/\ InfusionCalled
     /\ args.drug_concentration_value_mg_ml # Zero
     /\ args.total_final_infusion_volume_ml # Zero)
    => /\ (result = ExceedsError) <=> Less(args.total_final_infusion_volume_ml, DrugVolume)
       /\ DrugVolume = args.total_final_infusion_volume_ml
          => IF Positive(DrugVolume)
             THEN result.kind = "return" /\ result.value[2] = Zero
             ELSE result = Raise("ValueError",
                                 "Calculated volume of drug to draw is negative.")

\* A drug volume equal to the final volume: no diluent.
C6_Witness ==
    /\ InfusionCalled
    /\ Positive(args.total_dose_mg)
    /\ Positive(args.drug_concentration_value_mg_ml)
    /\ DrugVolume = args.total_final_infusion_volume_ml
    /\ result.kind = "return"
    /\ result.value[2] = Zero

\* C7: for total_dose_mg > 0 and concentration and final volume nonzero of either
\* sign, a returned result has drug volume, diluent volume and final concentration
\* all non-negative.
C7_ResultNonNegative ==
    (/\ InfusionCalled
     /\ Positive(args.total_dose_mg)
     /\ args.drug_concentration_value_mg_ml # Zero
     /\ args.total_final_infusion_volume_ml # Zero
     /\ result.kind = "return")
    => \A i \in 1 .. 3 : ~Less(result.value[i], Zero)

\* A returned preparation with a positive dose and some diluent.
C7_Witness ==
    /\ InfusionCalled
    /\ Positive(args.total_dose_mg)
    /\ result.kind = "return"
    /\ \A i \in 1 .. 3 : Positive(result.value[i])

RateCalled == pc \in {"called", "fedback"} /\ args.op = "rate_duration"

\* A round trip made with positive volume, drug amount and value.
RoundTripDone ==
    /\ pc = "fedback"
    /\ Positive(args.total_volume_ml)
    /\ Positive(args.total_drug_mg_in_infusion)
    /\ Positive(args.value)

\* C8 as stated: rate_from_duration and duration_from_rate are inverse: for positive
\* volume, drug amount and duration d, giving the rate r that rate_from_duration(d)
\* returned to duration_from_rate returns rate r, duration d and the same drug
\* delivery rate, and symmetrically starting from a rate: the second call returns
\* what the first returned.
C8_RoundTripExact == RoundTripDone => result2 = result

\* C8 amended: the round trip succeeds and reproduces the first call's result up to
\* floating-point rounding: the value given back (the rate, or the duration) is
\* returned unchanged, the value recomputed from it (the duration, or the rate) is
\* within 3 units of roundoff of the original and the drug delivery rate within 6.
C8_RoundTripRounded ==
    RoundTripDone
    => /\ result2.kind = "return"
       /\ IF args.mode = "rate_from_duration"
          THEN /\ result2.value[1] = result.value[1]
               /\ Within(result2.value[2], result.value[2], 3)
          ELSE /\ result2.value[2] = result.value[2]
               /\ Within(result2.value[1], result.value[1], 3)
       /\ Within(result2.value[3], result.value[3], 6)

\* A round trip from a duration that gives back another duration and another drug
\* delivery rate than the first call's.
C8_Witness ==
    /\ RoundTripDone
    /\ args.mode = "rate_from_duration"
    /\ result2.kind = "return"
    /\ result2.value[1] = result.value[1]
    /\ result2.value[2] # result.value[2]
    /\ result2.value[3] # result.value[3]

\* C9: every zero divisor is reported with its call site's message and no division
\* by zero is executed: infusion preparation with concentration 0, else with final
\* volume 0; rate_from_duration with value 0; duration_from_rate with value 0, and
\* with a nonzero rate and total volume 0.
C9_ZeroDivisorsReported ==
    /\ pc # "ready" => result.kind # "none"
    /\ result.exc # "ZeroDivisionError"
    /\ result2.exc # "ZeroDivisionError"
    /\ InfusionCalled
       => /\ args.drug_concentration_value_mg_ml = Zero
             => result = Raise("ValueError", "Drug concentration cannot be zero.")
          /\ (/\ args.drug_concentration_value_mg_ml # Zero
              /\ args.total_final_infusion_volume_ml = Zero)
             => result = Raise("ValueError", "Total final infusion volume cannot be zero.")
    /\ RateCalled
       => /\ (args.mode = "rate_from_duration" /\ args.value = Zero)
             => result = Raise("ValueError", "Duration cannot be zero.")
          /\ (args.mode = "duration_from_rate" /\ args.value = Zero)
             => result = Raise("ValueError", "Infusion rate cannot be zero.")
          /\ (/\ args.mode = "duration_from_rate"
              /\ args.value # Zero
              /\ args.total_volume_ml = Zero)
             => result = Raise("ValueError",
                "Total volume cannot be zero for drug concentration calculation in this mode.")

\* duration_from_rate with a nonzero rate and a zero total volume.
C9_Witness ==
    /\ RateCalled
    /\ args.mode = "duration_from_rate"
    /\ args.value # Zero
    /\ args.total_volume_ml = Zero
    /\ result.kind = "raise"
    /\ result.exc = "ValueError"

\* C10: any mode other than 'rate_from_duration' and 'duration_from_rate' fails with
\* "Invalid mode: <mode>", whatever the other inputs; the two recognized modes are
\* exclusive, each with its own checks and formulas only.
C10_InvalidMode ==
    RateCalled
    => result =
         IF args.mode = "rate_from_duration"
         THEN IF args.value = Zero
              THEN Raise("ValueError", "Duration cannot be zero.")
              ELSE Return(<<FDiv(args.total_volume_ml, args.value), args.value,
                            FDiv(args.total_drug_mg_in_infusion, args.value)>>)
         ELSE IF args.mode = "duration_from_rate"
         THEN IF args.value = Zero
              THEN Raise("ValueError", "Infusion rate cannot be zero.")
              ELSE IF args.total_volume_ml = Zero
              THEN Raise("ValueError",
                "Total volume cannot be zero for drug concentration calculation in this mode.")
              ELSE Return(<<args.value, FDiv(args.total_volume_ml, args.value),
                            FMul(args.value, FDiv(args.total_drug_mg_in_infusion,
                                                  args.total_volume_ml))>>)
         ELSE Raise("ValueError", "Invalid mode: " \o args.mode)

\* The mode written "Rate_From_Duration" with all numbers zero: reported as an
\* invalid mode, not as a zero duration.
C10_Witness ==
    /\ RateCalled
    /\ args.mode = "Rate_From_Duration"
    /\ args.value = Zero
    /\ args.total_volume_ml = Zero
    /\ result = Raise("ValueError", "Invalid mode: Rate_From_Duration")

\* ------------------------------------------------- claims on the catalog
\* The catalog a file persists: its records, none when it is no JSON array.
Persisted(file) == IF file.kind = "array" THEN file.data ELSE <<>>

IsPrefix(s, t) == Len(s) <= Len(t) /\ SubSeq(t, 1, Len(s)) = s

\* Process p completes an add whose save succeeded.
AddSucceeds(p) == proc[p].pc = "add_medication" /\ proc'[p].outcome = "added"

\* C11: no catalog persistence failure raises: a load returns the empty list
\* when the file is absent, unreadable or not a JSON array of records, and the
\* file's records otherwise; a save returns False when its I/O failed and True
\* otherwise; neither raises.
C11_PersistenceNeverRaises ==
    \A p \in DOMAIN proc :
        /\ proc[p].read.outcome # "none" =>
             /\ proc[p].medications.kind = "return"
             /\ proc[p].medications.value =
                  JsonList(IF proc[p].read.outcome = "ok"
                           THEN Persisted(proc[p].read.file) ELSE <<>>)
        /\ proc[p].write # "none" => (proc[p].saved = "True" <=> proc[p].write = "ok")
        /\ proc[p].write # "none" => proc[p].pc # "crashed"

\* C12: in a single process the persisted catalog only grows at its end: every
\* step keeps the records persisted before it, unchanged and in place, also a
\* step of an add whose load or save failed; and a successful add appends
\* exactly the new record.
C12_InsertionOrderKept ==
    [][/\ IsPrefix(Persisted(store), Persisted(store'))
       /\ \A p \in DOMAIN proc :
            AddSucceeds(p) =>
                Persisted(store') = Append(Persisted(store), proc'[p].new_medication)]_vars

\* C13: add has no lock and save overwrites the whole file: a successful add
\* leaves in the file exactly the list the process loaded before its prompts
\* plus its new record, whatever the file holds by then; so of two processes
\* that both load before either saves, the later save drops the earlier record.
C13_LastWriterWins ==
    [][\A p \in DOMAIN proc :
         AddSucceeds(p) =>
             store' = File("array", Append(proc[p].medications.value.items,
                                           proc'[p].new_medication))]_vars

\* Both processes loaded the same catalog, both saves returned True, and the
\* file holds only the record of process 2.
C13_Witness ==
    /\ DOMAIN proc = {1, 2}
    /\ proc[1].outcome = "added" /\ proc[1].saved = "True"
    /\ proc[2].outcome = "added" /\ proc[2].saved = "True"
    /\ proc[1].read = proc[2].read
    /\ proc[1].new_medication # proc[2].new_medication
    /\ store = File("array", Append(Persisted(proc[2].read.file), proc[2].new_medication))
    /\ \A i \in 1 .. Len(store.data) : store.data[i] # proc[1].new_medication

\* A concentration_value that is not a number (Python: neither int nor float)
\* or is not above zero.
NotPositiveNumber(concentration_value) ==
    \/ concentration_value.type \notin {"float", "bool"}
    \/ ~Positive(concentration_value.v)

CatalogCalculations == {"calculate_dose_per_weight", "calculate_infusion_preparation"}

====
